---- MODULE Spec2Model ----
(***************************************************************************)
(* Model of image_registration/engine.py: ImageRegistrationEngine with its *)
(* insertion-ordered algorithm registry, EngineConfig thresholds and the   *)
(* register() trial loop with early exit and fallback.                     *)
(*                                                                         *)
(* Scores and inlier ratios are floats in [0,1] in the source.  They are    *)
(* modelled as integers in hundredths (ScoreUnits stands for 1.0), sampled *)
(* at the MaxScore + 1 points of Grid.                                     *)
(***************************************************************************)
EXTENDS Integers, Sequences, FiniteSets, TLC

\* ---------------------------------------------------------------- bounds
MaxScore == 2

\* 1.0 in model units: scores, ratios and thresholds are in hundredths.
ScoreUnits == 100

\* The sampled points of [0.0, 1.0].
Grid == {(k * ScoreUnits) \div MaxScore : k \in 0..MaxScore}

\* Algorithm instances (0 stands for "no entry").
Insts == {1, 2}

\* Registry keys used by the model.
Names == {"A", "B", "C"}

\* Exception subclasses an align() call raises in the model.
ExcClasses == {"AlgorithmError", "RuntimeError"}

NoName == ""

\* ------------------------------------------------ values returned by align
\* A validated RegistrationResult (score and inlier_ratio inside [0,1]).
RegistrationResult(s, i) ==
    [kind |-> "result", score |-> s, inlier_ratio |-> i, exc |-> ""]

\* Python None: "no valid homography", also the initial best_result.
NoResult == [kind |-> "none", score |-> -1, inlier_ratio |-> -1, exc |-> ""]

\* align() raising an exception of class e instead of returning.
Raised(e) == [kind |-> "raise", score |-> -1, inlier_ratio |-> -1, exc |-> e]

\* align() returning an object that is not a RegistrationResult (no .score).
Malformed == [kind |-> "malformed", score |-> -1, inlier_ratio |-> -1, exc |-> ""]

Results == {RegistrationResult(s, i) : s \in Grid, i \in Grid}

\* What an align() call that honours Optional[RegistrationResult] can do.
Outcomes == Results \cup {NoResult} \cup {Raised(e) : e \in ExcClasses}

\* ------------------------------------------------------------ EngineConfig
EngineConfig(ms, mi, fb) ==
    [min_score |-> ms, min_inlier_ratio |-> mi, enable_fallback |-> fb]

Configs ==
    {EngineConfig(ms, mi, fb) : ms \in Grid, mi \in Grid, fb \in BOOLEAN}

\* ---------------------------------------------------------------- registry
\* The dict self.algorithms, as the sequence of its keys in insertion order.
Registries ==
    UNION {{s \in [1..n -> Names] : \A i, j \in 1..n : s[i] = s[j] => i = j}
           : n \in 1..Cardinality(Names)}

HasKey(reg, name) == \E i \in 1..Len(reg) : reg[i] = name

\* ------------------------------------------------------ results of register
NoMsg == [text |-> "", names |-> <<>>, best_score |-> -1,
          min_score |-> -1, min_inlier_ratio |-> -1]

NoRet == [kind |-> "none", algorithm |-> NoName, status |-> "",
          result |-> NoResult, attempts |-> <<>>, msg |-> NoMsg]

\* RegistrationOutput(algorithm, status, result, attempts)
RegistrationOutput(name, status, result, att) ==
    [kind |-> "output", algorithm |-> name, status |-> status,
     result |-> result, attempts |-> att, msg |-> NoMsg]

\* An exception leaving register(); msg holds what the message interpolates.
Raise(cls, msg) ==
    [kind |-> cls, algorithm |-> NoName, status |-> "",
     result |-> NoResult, attempts |-> <<>>, msg |-> msg]

VARIABLES
    algorithms,      \* self.algorithms: keys in insertion order
    config,          \* self.config
    pc,              \* position of the register() call
    it,              \* items the dict iterator of the for loop has yielded
    best_result,     \* local best_result
    best_algorithm,  \* local best_algorithm
    attempts,        \* local attempts
    invoked,         \* spy: names whose align() was entered, in call order
    outs,            \* spy: what each entered align() did, in call order
    ret,             \* how register() ended
    instance_of,     \* self.algorithms: the instance each key maps to
    invoked_inst,    \* spy: the instances whose align() was entered
    it_used,         \* dict size the iterator of the for loop was made with
    op,              \* the last registry operation the caller made
    err,             \* the exception that operation raised ("" for none)
    cpc,             \* concurrent calls: position of each register() call
    cit,             \* concurrent calls: items each call's iterator yielded
    frames,          \* concurrent calls: the locals, by stack frame
    couts,           \* spy: what the align() calls of each call did
    cret,            \* concurrent calls: how each call ended
    cfg_obj,         \* the value object constructed last, if an EngineConfig
    res_obj,         \* the same, if a RegistrationResult
    telemetry,       \* AssetTwin.telemetry
    rules,           \* RuleEngine.rules: the rule classes, in list order
    twin_config,     \* AssetTwin.config
    now,             \* what datetime.utcnow() returns, in days
    tpc,             \* position of the RuleEngine.evaluate() loop
    tcall,           \* the AssetTwin method that entered evaluate()
    results,         \* local results of RuleEngine.evaluate()
    seen,            \* spy: the utcnow() each evaluated rule read
    tret             \* what the last AssetTwin method returned

\* The engine and its one sequential caller.
svars == <<algorithms, config, pc, it, best_result, best_algorithm, attempts,
           invoked, outs, ret, instance_of, invoked_inst, it_used, op, err>>

\* The calls of concurrent callers.
cvars == <<cpc, cit, frames, couts, cret>>

\* Value objects under construction.
ovars == <<cfg_obj, res_obj>>

\* The asset twin, its rule engine and the clock.
tvars == <<telemetry, rules, twin_config, now, tpc, tcall, results, seen,
           tret>>

vars == <<svars, cvars, ovars, tvars>>

\* No registry operation since the last register() call.
NoOp == [name |-> "", key |-> NoName, inst |-> 0]

RegistryOp(opname, key, inst) == [name |-> opname, key |-> key, inst |-> inst]

\* ------------------------------------------------------------ the code

\* Mutation: exclusive thresholds.
is_acceptable_Strict(cfg, result) ==
    /\ result.score > cfg.min_score
    /\ result.inlier_ratio > cfg.min_inlier_ratio

is_acceptable(cfg, result) ==
    /\ result.score >= cfg.min_score
    /\ result.inlier_ratio >= cfg.min_inlier_ratio

\* Mutation: except AlgorithmError.
Caught_OnlyAlgorithmError(o) == o.kind = "raise" /\ o.exc = "AlgorithmError"

\* except Exception: every exception class of the model derives from it.
Caught(o) == o.kind = "raise" /\ o.exc \in ExcClasses

\* Mutation: the engine keeps a copy made from the two scores only.
TrackBest_CopiesScores(best, bestname, result, name) ==
    IF best.kind = "none" \/ result.score > best.score
    THEN [result |-> RegistrationResult(result.score, result.inlier_ratio),
          algorithm |-> name]
    ELSE [result |-> best, algorithm |-> bestname]

\* Mutation: >= lets a later result win a tie.
TrackBest_LastWinsTies(best, bestname, result, name) ==
    IF best.kind = "none" \/ result.score >= best.score
    THEN [result |-> result, algorithm |-> name]
    ELSE [result |-> best, algorithm |-> bestname]

\* "Track best result seen so far": the new [result, algorithm] pair.
TrackBest(best, bestname, result, name) ==
    IF best.kind = "none" \/ result.score > best.score
    THEN [result |-> result, algorithm |-> name]
    ELSE [result |-> best, algorithm |-> bestname]

\* Mutation: the output lists only the winner.
AcceptedOutput_OnlyWinner(name, result, att) ==
    RegistrationOutput(name, "accepted", result, <<name>>)

\* The early return of the loop.
AcceptedOutput(name, result, att) ==
    RegistrationOutput(name, "accepted", result, att)

\* Mutation: the message gives only the last attempt.
NoHomographyError_LastOnly(att) ==
    Raise("RegistrationError",
          [text |-> "no_valid_homography", names |-> <<att[Len(att)]>>,
           best_score |-> -1, min_score |-> -1, min_inlier_ratio |-> -1])

\* raise RegistrationError("No alignment produced a valid homography ...")
NoHomographyError(att) ==
    Raise("RegistrationError",
          [text |-> "no_valid_homography", names |-> att, best_score |-> -1,
           min_score |-> -1, min_inlier_ratio |-> -1])

\* raise RegistrationError("No alignment met quality thresholds ...")
BelowThresholdError(cfg, best, bestname) ==
    Raise("RegistrationError",
          [text |-> "below_thresholds", names |-> <<bestname>>,
           best_score |-> best.score, min_score |-> cfg.min_score,
           min_inlier_ratio |-> cfg.min_inlier_ratio])

\* Mutation: enable_fallback is not consulted.
FallbackLogic_IgnoresFlag(cfg, best, bestname, att) ==
    IF best.kind = "none" THEN NoHomographyError(att)
    ELSE RegistrationOutput(bestname, "fallback_low_confidence", best, att)

\* Mutation: the best result is handed out as a success.
FallbackLogic_SilentSuccess(cfg, best, bestname, att) ==
    IF best.kind = "none" THEN NoHomographyError(att)
    ELSE IF ~cfg.enable_fallback THEN BelowThresholdError(cfg, best, bestname)
    ELSE RegistrationOutput(bestname, "accepted", best, att)

\* Mutation: the test of enable_fallback is inverted.
FallbackLogic_FlagInverted(cfg, best, bestname, att) ==
    IF best.kind = "none" THEN NoHomographyError(att)
    ELSE IF cfg.enable_fallback THEN BelowThresholdError(cfg, best, bestname)
    ELSE RegistrationOutput(bestname, "fallback_low_confidence", best, att)

\* The code after the loop ("No algorithm met thresholds - fallback logic").
FallbackLogic(cfg, best, bestname, att) ==
    IF best.kind = "none" THEN NoHomographyError(att)
    ELSE IF ~cfg.enable_fallback THEN BelowThresholdError(cfg, best, bestname)
    ELSE RegistrationOutput(bestname, "fallback_low_confidence", best, att)

\* One loop body from the point align() ends with o.  L holds the locals
\* (attempts already has name).  The result has ret.kind = "none" when the
\* loop goes on.
Process(cfg, L, name, o) ==
    IF o.kind = "raise"
    THEN IF Caught(o) THEN L
         ELSE [L EXCEPT !.ret = Raise(o.exc, NoMsg)]
    ELSE IF o.kind = "none" THEN L
    ELSE IF o.kind = "malformed"
    THEN [L EXCEPT !.ret = Raise("AttributeError", NoMsg)]
    ELSE LET b == TrackBest(L.best_result, L.best_algorithm, o, name)
             M == [L EXCEPT !.best_result = b.result,
                            !.best_algorithm = b.algorithm]
         IN  IF is_acceptable(cfg, o)
             THEN [M EXCEPT !.ret = AcceptedOutput(name, o, L.attempts)]
             ELSE M

InitLocals == [best_result |-> NoResult, best_algorithm |-> NoName,
               attempts |-> <<>>, ret |-> NoRet]

\* Callers that may be inside register() at the same time.
Calls == {1, 2}

\* No EngineConfig(...) call made yet.
NoConfig == [min_score |-> -1, min_inlier_ratio |-> -1,
             enable_fallback |-> FALSE]

NoConfigObject == [called |-> FALSE, args |-> NoConfig, raised |-> "",
                   value |-> NoConfig]

\* No RegistrationResult(...) call made yet.
NoFields == [score |-> -1, inlier_ratio |-> -1, homography |-> "",
             matches_count |-> -1]

NoResultObject == [called |-> FALSE, args |-> NoFields, raised |-> "",
                   value |-> NoFields]

Locals == [best_result |-> best_result, best_algorithm |-> best_algorithm,
           attempts |-> attempts, ret |-> ret]

\* ------------------------------------------------------------ asset_twin

\* Longest telemetry list of the model.
MaxPoints == 3

\* Timestamps and clock readings, in days.
MaxTime == 2

Timestamps == 0..MaxTime

\* Flow readings: a negative one, a degraded one and the rated one.
FlowInputs == {-1, 5, 10}

\* Temperature readings: a normal one, a hot one, one past the sanity range.
TemperatureInputs == {70, 90, 201}

\* TelemetryPoint.__post_init__: the exception class raised, "" for none.
PointPostInit(flow, temperature) ==
    IF flow < 0 THEN "ValueError"
    ELSE IF temperature < -100 \/ temperature > 200 THEN "ValueError"
    ELSE ""

TelemetryPoint(ts, flow, temperature) ==
    [timestamp |-> ts, flow |-> flow, temperature |-> temperature]

\* Python None where a TelemetryPoint is expected.
NoPoint == [timestamp |-> -1, flow |-> -1, temperature |-> -1]

\* The points that pass validation.
Points ==
    {TelemetryPoint(ts, f, t) : ts \in Timestamps,
        f \in {x \in FlowInputs : PointPostInit(x, 70) = ""},
        t \in {x \in TemperatureInputs : PointPostInit(10, x) = ""}}

\* MaintenanceThresholds; flow_degradation_ratio is in hundredths.
MaintenanceThresholds(ratio, margin, points, days) ==
    [flow_degradation_ratio |-> ratio, temperature_margin_celsius |-> margin,
     min_data_points |-> points, evaluation_window_days |-> days]

TwinConfig(rated, failure, thresholds) ==
    [rated_flow |-> rated, failure_temperature |-> failure,
     thresholds |-> thresholds]

\* A pump rated at 10 that fails at 85 degrees, with the default ratio and
\* margin, a window of one day and the smallest data requirements.
TwinConfigs ==
    {TwinConfig(10, 85, MaintenanceThresholds(80, 5, n, 1)) : n \in {1, 2}}

RuleClasses == {"FlowDegradationRule", "TemperatureExcursionRule"}

\* RuleEngine(): the default rule set.
DefaultRules == <<"FlowDegradationRule", "TemperatureExcursionRule">>

\* RuleResult(needs_maintenance, reason, confidence); reason holds the fixed
\* start of the message, confidence is in hundredths.
RuleResult(needs, reason, confidence) ==
    [needs_maintenance |-> needs, reason |-> reason,
     confidence |-> confidence]

\* What an AssetTwin method returned; list and seen also keep, for
\* needs_maintenance, the results its evaluate() call made and the clock
\* readings behind them.
NoTwinRet == [op |-> "", raised |-> "", point |-> NoPoint, list |-> <<>>,
              flag |-> FALSE, seen |-> <<>>]

\* No AssetTwin in the picture.
NoTwin ==
    /\ telemetry = <<>>
    /\ rules = <<>>
    /\ twin_config = TwinConfig(0, 0, MaintenanceThresholds(0, 0, 0, 0))
    /\ now = 0
    /\ tpc = "none"
    /\ tcall = ""
    /\ results = <<>>
    /\ seen = <<>>
    /\ tret = NoTwinRet

\* Mutation: the list is left in arrival order.
SortByTimestamp_NoSort(s) == s

\* list.sort(key=lambda t: t.timestamp): a stable sort.  The sorted place of
\* an item is one more than the number of items that go before it: those
\* with a smaller key, and those with an equal key that stood before it.
SortByTimestamp(s) ==
    LET before(i) ==
            {j \in 1..Len(s) :
                \/ s[j].timestamp < s[i].timestamp
                \/ s[j].timestamp = s[i].timestamp /\ j < i}
    IN  [k \in 1..Len(s) |->
            s[CHOOSE i \in 1..Len(s) : Cardinality(before(i)) + 1 = k]]

\* AssetTwin.add_telemetry(point)
add_telemetry(point) ==
    /\ tpc = "idle"
    /\ Len(telemetry) < MaxPoints
    /\ telemetry' = SortByTimestamp(Append(telemetry, point))
    /\ tret' = [NoTwinRet EXCEPT !.op = "add_telemetry"]
    /\ UNCHANGED <<rules, twin_config, now, tpc, tcall, results, seen>>
    /\ UNCHANGED <<svars, cvars, ovars>>

\* AssetTwin.add_telemetry_reading(timestamp, flow, temperature)
add_telemetry_reading(timestamp, flow, temperature) ==
    /\ tpc = "idle"
    /\ Len(telemetry) < MaxPoints
    /\ IF PointPostInit(flow, temperature) # ""
       THEN /\ tret' = [NoTwinRet EXCEPT !.op = "add_telemetry_reading",
                                         !.raised = PointPostInit(flow, temperature)]
            /\ UNCHANGED telemetry
       ELSE /\ telemetry' = SortByTimestamp(
                    Append(telemetry,
                           TelemetryPoint(timestamp, flow, temperature)))
            /\ tret' = [NoTwinRet EXCEPT !.op = "add_telemetry_reading"]
    /\ UNCHANGED <<rules, twin_config, now, tpc, tcall, results, seen>>
    /\ UNCHANGED <<svars, cvars, ovars>>

\* AssetTwin.get_latest_telemetry()
get_latest_telemetry ==
    /\ tpc = "idle"
    /\ tret' = [NoTwinRet EXCEPT
                   !.op = "get_latest_telemetry",
                   !.point = IF telemetry = <<>> THEN NoPoint
                             ELSE telemetry[Len(telemetry)]]
    /\ UNCHANGED <<telemetry, rules, twin_config, now, tpc, tcall, results,
                   seen>>
    /\ UNCHANGED <<svars, cvars, ovars>>

\* AssetTwin.clear_telemetry()
clear_telemetry ==
    /\ tpc = "idle"
    /\ telemetry' = <<>>
    /\ tret' = [NoTwinRet EXCEPT !.op = "clear_telemetry"]
    /\ UNCHANGED <<rules, twin_config, now, tpc, tcall, results, seen>>
    /\ UNCHANGED <<svars, cvars, ovars>>

\* Mutation: the whole history, no cutoff.
Window_All(cfg, tel, t) == tel

\* window = [t for t in telemetry if t.timestamp >= cutoff], with
\* cutoff = utcnow() - timedelta(days=evaluation_window_days)
Window(cfg, tel, t) ==
    SelectSeq(tel, LAMBDA p :
        p.timestamp >= t - cfg.thresholds.evaluation_window_days)

RECURSIVE SumFlow(_)
\* sum(t.flow for t in window)
SumFlow(w) == IF w = <<>> THEN 0 ELSE w[1].flow + SumFlow(Tail(w))

\* max(t.temperature for t in window), for a non-empty window
MaxTemperature(w) ==
    CHOOSE m \in {w[i].temperature : i \in 1..Len(w)} :
        \A i \in 1..Len(w) : w[i].temperature <= m

\* FlowDegradationRule.evaluate at clock reading t.  avg_flow <
\* threshold_flow is compared with both sides multiplied by 100 * len(window).
FlowDegradationRule(cfg, tel, t) ==
    LET window == Window(cfg, tel, t)
    IN  IF Len(window) < cfg.thresholds.min_data_points
        THEN RuleResult(FALSE, "Insufficient data", 0)
        ELSE IF SumFlow(window) * 100
                   < cfg.thresholds.flow_degradation_ratio * cfg.rated_flow
                         * Len(window)
        THEN RuleResult(TRUE, "Flow degradation detected", 90)
        ELSE RuleResult(FALSE, "Flow normal", 100)

\* TemperatureExcursionRule.evaluate at clock reading t.
TemperatureExcursionRule(cfg, tel, t) ==
    LET window == Window(cfg, tel, t)
    IN  IF Len(window) < cfg.thresholds.min_data_points
        THEN RuleResult(FALSE, "Insufficient data", 0)
        ELSE IF MaxTemperature(window)
                   > cfg.failure_temperature
                         - cfg.thresholds.temperature_margin_celsius
        THEN RuleResult(TRUE, "Temperature excursion detected", 85)
        ELSE RuleResult(FALSE, "Temperature normal", 100)

\* rule.evaluate(config, telemetry), by the class of rule.
EvaluateRule(rule, cfg, tel, t) ==
    IF rule = "FlowDegradationRule" THEN FlowDegradationRule(cfg, tel, t)
    ELSE TemperatureExcursionRule(cfg, tel, t)

\* Mutation: all() in place of any().
AnyNeeds_All(rs) == \A i \in 1..Len(rs) : rs[i].needs_maintenance

\* any(r.needs_maintenance for r in results)
AnyNeeds(rs) == \E i \in 1..Len(rs) : rs[i].needs_maintenance

\* RuleEngine.evaluate is entered, by AssetTwin.get_maintenance_assessment
\* or by RuleEngine.needs_maintenance for AssetTwin.needs_maintenance.
EvaluateEnter(method) ==
    /\ tpc = "idle"
    /\ tpc' = "rules"
    /\ tcall' = method
    /\ results' = <<>>
    /\ seen' = <<>>
    /\ tret' = NoTwinRet
    /\ UNCHANGED <<telemetry, rules, twin_config, now>>
    /\ UNCHANGED <<svars, cvars, ovars>>

\* One pass of "for rule in self.rules": the rule reads the clock and its
\* result is appended.
EvaluateStep ==
    /\ tpc = "rules"
    /\ Len(results) < Len(rules)
    /\ results' = Append(results,
                      EvaluateRule(rules[Len(results) + 1], twin_config,
                                   telemetry, now))
    /\ seen' = Append(seen, now)
    /\ UNCHANGED <<telemetry, rules, twin_config, now, tpc, tcall, tret>>
    /\ UNCHANGED <<svars, cvars, ovars>>

\* The loop is over: evaluate returns results, needs_maintenance any(...).
EvaluateReturn ==
    /\ tpc = "rules"
    /\ Len(results) = Len(rules)
    /\ tpc' = "idle"
    /\ tret' = [NoTwinRet EXCEPT
                   !.op = tcall, !.list = results, !.seen = seen,
                   !.flag = IF tcall = "needs_maintenance"
                            THEN AnyNeeds(results) ELSE FALSE]
    /\ tcall' = ""
    /\ results' = <<>>
    /\ seen' = <<>>
    /\ UNCHANGED <<telemetry, rules, twin_config, now>>
    /\ UNCHANGED <<svars, cvars, ovars>>

\* RuleEngine.add_rule(rule), for a rule of a class not yet in the list.
add_rule(rule) ==
    /\ tpc = "idle"
    /\ \A i \in 1..Len(rules) : rules[i] # rule
    /\ rules' = Append(rules, rule)
    /\ tret' = [NoTwinRet EXCEPT !.op = "add_rule"]
    /\ UNCHANGED <<telemetry, twin_config, now, tpc, tcall, results, seen>>
    /\ UNCHANGED <<svars, cvars, ovars>>

\* RuleEngine.remove_rule(rule_class_name)
remove_rule(rule_class_name) ==
    /\ tpc = "idle"
    /\ rules' = SelectSeq(rules, LAMBDA r : r # rule_class_name)
    /\ tret' = [NoTwinRet EXCEPT !.op = "remove_rule"]
    /\ UNCHANGED <<telemetry, twin_config, now, tpc, tcall, results, seen>>
    /\ UNCHANGED <<svars, cvars, ovars>>

\* The clock moves on by a day.
Tick ==
    /\ now < MaxTime
    /\ now' = now + 1
    /\ UNCHANGED <<telemetry, rules, twin_config, tpc, tcall, results, seen,
                   tret>>
    /\ UNCHANGED <<svars, cvars, ovars>>

\* A twin made by AssetTwin(config): default rules, no telemetry.
InitTelemetry ==
    /\ telemetry = <<>>
    /\ rules = DefaultRules
    /\ twin_config \in TwinConfigs
    /\ now = 0
    /\ tpc = "idle"
    /\ tcall = ""
    /\ results = <<>>
    /\ seen = <<>>
    /\ tret = NoTwinRet

\* ------------------------------------------------------------ actions

\* Mutation: the best result of the previous call is not cleared.
Register_KeepsBest ==
    /\ UNCHANGED <<cvars, ovars, tvars>>
    /\ pc \in {"idle", "done"}
    /\ pc' = "loop"
    /\ it' = 0
    /\ it_used' = Len(algorithms)
    /\ best_result' = best_result
    /\ best_algorithm' = best_algorithm
    /\ attempts' = <<>>
    /\ invoked' = <<>>
    /\ invoked_inst' = <<>>
    /\ outs' = <<>>
    /\ ret' = NoRet
    /\ op' = NoOp
    /\ err' = ""
    /\ UNCHANGED <<algorithms, instance_of, config>>

\* Mutation: attempts lives on across calls.
Register_KeepsAttempts ==
    /\ UNCHANGED <<cvars, ovars, tvars>>
    /\ pc \in {"idle", "done"}
    /\ pc' = "loop"
    /\ it' = 0
    /\ it_used' = Len(algorithms)
    /\ best_result' = NoResult
    /\ best_algorithm' = NoName
    /\ attempts' = attempts
    /\ invoked' = <<>>
    /\ invoked_inst' = <<>>
    /\ outs' = <<>>
    /\ ret' = NoRet
    /\ op' = NoOp
    /\ err' = ""
    /\ UNCHANGED <<algorithms, instance_of, config>>

\* register(src_img, ref_img) is entered: the locals are initialised.
Register ==
    /\ UNCHANGED <<cvars, ovars, tvars>>
    /\ pc \in {"idle", "done"}
    /\ pc' = "loop"
    /\ it' = 0
    /\ it_used' = Len(algorithms)
    /\ best_result' = NoResult
    /\ best_algorithm' = NoName
    /\ attempts' = <<>>
    /\ invoked' = <<>>
    /\ invoked_inst' = <<>>
    /\ outs' = <<>>
    /\ ret' = NoRet
    /\ op' = NoOp
    /\ err' = ""
    /\ UNCHANGED <<algorithms, instance_of, config>>

\* The for loop yields the next item, appends its name and enters align().
Invoke ==
    /\ UNCHANGED <<cvars, ovars, tvars>>
    /\ pc = "loop"
    /\ it_used = Len(algorithms)
    /\ it < Len(algorithms)
    /\ it' = it + 1
    /\ attempts' = Append(attempts, algorithms[it + 1])
    /\ invoked' = Append(invoked, algorithms[it + 1])
    /\ invoked_inst' = Append(invoked_inst, instance_of[algorithms[it + 1]])
    /\ pc' = "align"
    /\ UNCHANGED <<algorithms, instance_of, config, best_result,
                   best_algorithm, outs, ret, it_used, op, err>>

\* align() ends with o and the rest of the loop body runs.
AlignReturn(o) ==
    /\ UNCHANGED <<cvars, ovars, tvars>>
    /\ pc = "align"
    /\ LET L == Process(config, Locals, attempts[Len(attempts)], o)
       IN  /\ best_result' = L.best_result
           /\ best_algorithm' = L.best_algorithm
           /\ attempts' = L.attempts
           /\ ret' = L.ret
           /\ pc' = IF L.ret.kind = "none" THEN "loop" ELSE "done"
    /\ outs' = Append(outs, o)
    /\ UNCHANGED <<algorithms, instance_of, config, it, invoked, invoked_inst,
                   it_used, op, err>>

\* Mutation: with nothing found the trial loop is started over.
Finish_Retry ==
    /\ UNCHANGED <<cvars, ovars, tvars>>
    /\ pc = "loop"
    /\ it_used = Len(algorithms)
    /\ it = Len(algorithms)
    /\ IF best_result.kind = "none"
       THEN /\ it' = 0
            /\ attempts' = <<>>
            /\ invoked' = <<>>
            /\ invoked_inst' = <<>>
            /\ outs' = <<>>
            /\ UNCHANGED <<pc, ret>>
       ELSE /\ ret' = FallbackLogic(config, best_result, best_algorithm,
                                    attempts)
            /\ pc' = "done"
            /\ UNCHANGED <<it, attempts, invoked, invoked_inst, outs>>
    /\ UNCHANGED <<algorithms, instance_of, config, best_result,
                   best_algorithm, it_used, op, err>>

\* The loop is exhausted: fallback logic.
Finish ==
    /\ UNCHANGED <<cvars, ovars, tvars>>
    /\ pc = "loop"
    /\ it_used = Len(algorithms)
    /\ it = Len(algorithms)
    /\ ret' = FallbackLogic(config, best_result, best_algorithm, attempts)
    /\ pc' = "done"
    /\ UNCHANGED <<algorithms, instance_of, config, it, best_result,
                   best_algorithm, attempts, invoked, invoked_inst, outs,
                   it_used, op, err>>

\* The caller drops the previous call's output before it mutates the registry.
ResetLocals ==
    /\ pc' = "idle"
    /\ it' = 0
    /\ it_used' = 0
    /\ best_result' = NoResult
    /\ best_algorithm' = NoName
    /\ attempts' = <<>>
    /\ invoked' = <<>>
    /\ invoked_inst' = <<>>
    /\ outs' = <<>>
    /\ ret' = NoRet

\* Mutation: popitem(), the last entry is removed whatever the name.
DelItem_Pop(reg, name) == SubSeq(reg, 1, Len(reg) - 1)

\* Mutation: an overwritten key moves to the end (pop, then insert).
SetItem_MoveToEnd(reg, name) ==
    Append(SelectSeq(reg, LAMBDA k : k # name), name)

\* self.algorithms[name] = algorithm: a new key goes last, an existing key
\* keeps its place.
SetItem(reg, name) == IF HasKey(reg, name) THEN reg ELSE Append(reg, name)

\* del self.algorithms[name]
DelItem(reg, name) == SelectSeq(reg, LAMBDA k : k # name)

\* Mutation: setdefault, an existing entry keeps its old instance.
SetInstance_SetDefault(m, name, algorithm) ==
    IF m[name] # 0 THEN m ELSE [m EXCEPT ![name] = algorithm]

\* The value side of self.algorithms[name] = algorithm.
SetInstance(m, name, algorithm) == [m EXCEPT ![name] = algorithm]

\* The value side of del self.algorithms[name].
DelInstance(m, name) == [m EXCEPT ![name] = 0]

\* Mutation: the guard fires only for a name that is not registered.
LastAlgorithmGuard_OnlyMissing(reg, name) ==
    Len(reg) = 1 /\ ~HasKey(reg, name)

\* Mutation: the guard never fires.
LastAlgorithmGuard_Never(reg, name) == Len(reg) = 0

\* if len(self.algorithms) == 1: raise ConfigurationError
LastAlgorithmGuard(reg, name) == Len(reg) = 1

register_algorithm(name, algorithm) ==
    /\ UNCHANGED <<cvars, ovars, tvars>>
    /\ pc \in {"idle", "done"}
    /\ algorithms' = SetItem(algorithms, name)
    /\ instance_of' = SetInstance(instance_of, name, algorithm)
    /\ op' = RegistryOp("register_algorithm", name, algorithm)
    /\ err' = ""
    /\ ResetLocals
    /\ UNCHANGED config

unregister_algorithm(name) ==
    /\ UNCHANGED <<cvars, ovars, tvars>>
    /\ pc \in {"idle", "done"}
    /\ IF LastAlgorithmGuard(algorithms, name)
       THEN /\ err' = "ConfigurationError"
            /\ UNCHANGED <<algorithms, instance_of>>
       ELSE /\ err' = ""
            /\ IF HasKey(algorithms, name)
               THEN /\ algorithms' = DelItem(algorithms, name)
                    /\ instance_of' = DelInstance(instance_of, name)
               ELSE UNCHANGED <<algorithms, instance_of>>
    /\ op' = RegistryOp("unregister_algorithm", name, 0)
    /\ ResetLocals
    /\ UNCHANGED config

\* ------------------------------------------------------------ specifications

\* Everything but the engine's registry, config and existence.
InitRest ==
    /\ it = 0
    /\ best_result = NoResult
    /\ best_algorithm = NoName
    /\ attempts = <<>>
    /\ invoked = <<>>
    /\ outs = <<>>
    /\ ret = NoRet
    /\ invoked_inst = <<>>
    /\ it_used = 0
    /\ op = NoOp
    /\ err = ""
    /\ cpc = [c \in Calls |-> "idle"]
    /\ cit = [c \in Calls |-> 0]
    /\ frames = [c \in Calls |-> InitLocals]
    /\ couts = [c \in Calls |-> <<>>]
    /\ cret = [c \in Calls |-> NoRet]
    /\ cfg_obj = NoConfigObject
    /\ res_obj = NoResultObject

\* An engine constructed from a non-empty dict and a valid config.
Init ==
    /\ algorithms \in Registries
    /\ config \in Configs
    /\ pc = "idle"
    /\ instance_of = [n \in Names |-> IF HasKey(algorithms, n) THEN 1 ELSE 0]
    /\ InitRest
    /\ NoTwin

Next ==
    \/ Register
    \/ Invoke
    \/ \E o \in Outcomes : AlignReturn(o)
    \/ Finish
    \/ \E n \in Names : register_algorithm(n, 1)
    \/ \E n \in Names : unregister_algorithm(n)

Spec == Init /\ [][Next]_vars

\* Algorithms that may also return a value outside the result contract.
AlignReturnsMalformed == AlignReturn(Malformed)

NextUntyped ==
    \/ Next
    \/ AlignReturnsMalformed

SpecUntyped == Init /\ [][NextUntyped]_vars

TypeOK ==
    /\ algorithms \in Registries
    /\ config \in Configs
    /\ pc \in {"idle", "loop", "align", "done"}
    /\ it \in 0..Len(algorithms)
    /\ best_result \in Results \cup {NoResult}
    /\ best_algorithm \in Names \cup {NoName}

\* A small set of align() outcomes: nothing, a fault, the worst and the
\* best result.
ProbeOutcomes ==
    {NoResult, Raised("RuntimeError"), RegistrationResult(0, 0),
     RegistrationResult(ScoreUnits, ScoreUnits)}

\* Engines whose entries hold any of the instances.
InitRegistry ==
    /\ algorithms \in Registries
    /\ config \in Configs
    /\ pc = "idle"
    /\ instance_of \in {m \in [Names -> Insts \cup {0}] :
                            \A n \in Names : HasKey(algorithms, n) <=> m[n] # 0}
    /\ InitRest
    /\ NoTwin

NextRegistry ==
    \/ Register
    \/ Invoke
    \/ \E o \in ProbeOutcomes : AlignReturn(o)
    \/ Finish
    \/ \E n \in Names, a \in Insts : register_algorithm(n, a)
    \/ \E n \in Names : unregister_algorithm(n)

SpecRegistry == InitRegistry /\ [][NextRegistry]_vars

\* ------------------------------------ registry mutation during register()

\* All variables of the in-flight call and of the caller's last operation.
callvars == <<config, pc, it, best_result, best_algorithm, attempts, invoked,
              outs, ret, invoked_inst, it_used, op, err>>

\* register_algorithm called while align() of the in-flight register() runs
\* (from the algorithm itself or from another thread).  The model follows
\* the call up to its first change of the dict's size.
InFlightRegisterAlgorithm(name, algorithm) ==
    /\ UNCHANGED <<cvars, ovars, tvars>>
    /\ pc = "align"
    /\ it_used = Len(algorithms)
    /\ algorithms' = SetItem(algorithms, name)
    /\ instance_of' = SetInstance(instance_of, name, algorithm)
    /\ UNCHANGED callvars

\* unregister_algorithm called while align() of the in-flight call runs.
InFlightUnregisterAlgorithm(name) ==
    /\ UNCHANGED <<cvars, ovars, tvars>>
    /\ pc = "align"
    /\ it_used = Len(algorithms)
    /\ ~LastAlgorithmGuard(algorithms, name)
    /\ HasKey(algorithms, name)
    /\ algorithms' = DelItem(algorithms, name)
    /\ instance_of' = DelInstance(instance_of, name)
    /\ UNCHANGED callvars

\* for name, algo in self.algorithms.items(): the iterator finds the dict's
\* size changed and raises RuntimeError, outside the try block.
IterChanged ==
    /\ UNCHANGED <<cvars, ovars, tvars>>
    /\ pc = "loop"
    /\ it_used # Len(algorithms)
    /\ ret' = Raise("RuntimeError", NoMsg)
    /\ pc' = "done"
    /\ UNCHANGED <<algorithms, instance_of, config, it, best_result,
                   best_algorithm, attempts, invoked, invoked_inst, outs,
                   it_used, op, err>>

NextReentrant ==
    \/ Register
    \/ Invoke
    \/ \E o \in ProbeOutcomes : AlignReturn(o)
    \/ Finish
    \/ IterChanged
    \/ \E n \in Names : InFlightRegisterAlgorithm(n, 1)
    \/ \E n \in Names : InFlightUnregisterAlgorithm(n)

SpecReentrant == Init /\ [][NextReentrant]_vars

\* ------------------------------------------------- register() as a function

\* The locals of register() once the first n algorithms of reg have ended
\* with os[1..n]; the loop stops at the first iteration that sets ret.
RECURSIVE RunLoop(_, _, _, _)
RunLoop(cfg, reg, os, n) ==
    IF n = 0 THEN InitLocals
    ELSE LET P == RunLoop(cfg, reg, os, n - 1)
         IN  IF P.ret.kind # "none" THEN P
             ELSE Process(cfg, [P EXCEPT !.attempts = Append(@, reg[n])],
                          reg[n], os[n])

\* How register() ends when the algorithms of reg end with os, in order
\* (NoRet while algorithms are still to be tried).
Run(cfg, reg, os) ==
    LET L == RunLoop(cfg, reg, os, Len(os))
    IN  IF L.ret.kind # "none" THEN L.ret
        ELSE IF Len(os) = Len(reg)
             THEN FallbackLogic(cfg, L.best_result, L.best_algorithm,
                                L.attempts)
             ELSE NoRet

\* ------------------------------------------------------------ construction

\* Thresholds and scores a caller may pass: the grid and the values just
\* outside [0.0, 1.0].
FloatInputs == Grid \cup {-1, ScoreUnits + 1}

MatchInputs == {-1, 0, 1}

HomographyInputs == {"H1", "H2"}

\* Mutation: only min_score is validated.
ConfigPostInit_OnlyMinScore(ms, mi) ==
    IF ~(0 <= ms /\ ms <= ScoreUnits) THEN "ValueError" ELSE ""

\* EngineConfig.__post_init__: the exception class raised, "" for none.
ConfigPostInit(ms, mi) ==
    IF ~(0 <= ms /\ ms <= ScoreUnits) THEN "ValueError"
    ELSE IF ~(0 <= mi /\ mi <= ScoreUnits) THEN "ValueError"
    ELSE ""

\* EngineConfig(min_score=ms, min_inlier_ratio=mi, enable_fallback=fb)
EngineConfigInit(ms, mi, fb) ==
    /\ pc = "new"
    /\ cfg_obj' = [called |-> TRUE, args |-> EngineConfig(ms, mi, fb),
                   raised |-> ConfigPostInit(ms, mi),
                   value |-> IF ConfigPostInit(ms, mi) = ""
                             THEN EngineConfig(ms, mi, fb) ELSE NoConfig]
    /\ res_obj' = NoResultObject
    /\ UNCHANGED <<svars, cvars, tvars>>

\* Mutation: matches_count is not validated.
ResultPostInit_NoMatchesCheck(sc, ir, m) ==
    IF ~(0 <= sc /\ sc <= ScoreUnits) THEN "ValueError"
    ELSE IF ~(0 <= ir /\ ir <= ScoreUnits) THEN "ValueError"
    ELSE ""

\* RegistrationResult.__post_init__: the exception class raised.
ResultPostInit(sc, ir, m) ==
    IF ~(0 <= sc /\ sc <= ScoreUnits) THEN "ValueError"
    ELSE IF ~(0 <= ir /\ ir <= ScoreUnits) THEN "ValueError"
    ELSE IF m < 0 THEN "ValueError"
    ELSE ""

\* The fields the dataclass __init__ assigns.
ResultFields(sc, ir, h, m) ==
    [score |-> sc, inlier_ratio |-> ir, homography |-> h,
     matches_count |-> m]

\* RegistrationResult(score=sc, inlier_ratio=ir, homography=h,
\*                    matches_count=m)
RegistrationResultInit(sc, ir, h, m) ==
    /\ pc = "new"
    /\ res_obj' = [called |-> TRUE, args |-> ResultFields(sc, ir, h, m),
                   raised |-> ResultPostInit(sc, ir, m),
                   value |-> IF ResultPostInit(sc, ir, m) = ""
                             THEN ResultFields(sc, ir, h, m) ELSE NoFields]
    /\ cfg_obj' = NoConfigObject
    /\ UNCHANGED <<svars, cvars, tvars>>

DefaultMinScore == 85

DefaultMinInlierRatio == 60

\* Mutation: fallback is off by default.
DefaultEngineConfig_NoFallback ==
    EngineConfig(DefaultMinScore, DefaultMinInlierRatio, FALSE)

\* EngineConfig(): the dataclass defaults.
DefaultEngineConfig ==
    EngineConfig(DefaultMinScore, DefaultMinInlierRatio, TRUE)

\* Mutation: an empty dict is let through.
RejectsAlgorithms_Never(algos) == FALSE

\* if not algorithms: raise ConfigurationError
RejectsAlgorithms(algos) == Len(algos) = 0

\* ImageRegistrationEngine(algorithms=algos, config=cfg), where cfg is the
\* EngineConfig constructed last (given = TRUE) or None.  op records the
\* call: key tells whether a config was passed, inst the size of algos.
EngineInit(algos, given) ==
    /\ pc = "new"
    /\ given => (cfg_obj.called /\ cfg_obj.raised = "")
    /\ op' = RegistryOp("__init__",
                        IF given THEN "config=given" ELSE "config=None",
                        Len(algos))
    /\ IF RejectsAlgorithms(algos)
       THEN /\ err' = "ConfigurationError"
            /\ UNCHANGED <<algorithms, instance_of, config, pc>>
       ELSE /\ err' = ""
            /\ algorithms' = algos
            /\ instance_of' = [n \in Names |->
                                  IF HasKey(algos, n) THEN 1 ELSE 0]
            /\ config' = IF given THEN cfg_obj.value ELSE DefaultEngineConfig
            /\ pc' = "idle"
    /\ UNCHANGED <<it, best_result, best_algorithm, attempts, invoked, outs,
                   ret, invoked_inst, it_used>>
    /\ UNCHANGED <<cvars, ovars, tvars>>

\* No engine exists yet.
InitCtor ==
    /\ algorithms = <<>>
    /\ config = NoConfig
    /\ pc = "new"
    /\ instance_of = [n \in Names |-> 0]
    /\ InitRest
    /\ NoTwin

NextCtor ==
    \/ \E ms \in FloatInputs, mi \in FloatInputs, fb \in BOOLEAN :
           EngineConfigInit(ms, mi, fb)
    \/ \E sc \in FloatInputs, ir \in FloatInputs, h \in HomographyInputs,
          m \in MatchInputs : RegistrationResultInit(sc, ir, h, m)
    \/ \E algos \in Registries \cup {<<>>}, given \in BOOLEAN :
           EngineInit(algos, given)

SpecCtor == InitCtor /\ [][NextCtor]_vars

\* An engine from its construction on: EngineConfig objects with thresholds
\* at the ends of [0.0, 1.0], the constructor, then registry operations and
\* register() calls.
NextLifecycle ==
    \/ \E ms \in {0, ScoreUnits}, mi \in {0, ScoreUnits}, fb \in BOOLEAN :
           EngineConfigInit(ms, mi, fb)
    \/ \E algos \in Registries \cup {<<>>}, given \in BOOLEAN :
           EngineInit(algos, given)
    \/ Register
    \/ Invoke
    \/ \E o \in ProbeOutcomes : AlignReturn(o)
    \/ Finish
    \/ \E n \in Names : register_algorithm(n, 1)
    \/ \E n \in Names : unregister_algorithm(n)

SpecLifecycle == InitCtor /\ [][NextLifecycle]_vars

\* ------------------------------------------- register() calls that go on

\* One caller making register() calls on a fixed registry.
NextCall ==
    \/ Register
    \/ Invoke
    \/ \E o \in ProbeOutcomes : AlignReturn(o)
    \/ Finish

\* The interpreter does not stop inside register(), and every align() call
\* that was entered returns or raises.
Fairness ==
    /\ WF_vars(Invoke)
    /\ WF_vars(Finish)
    /\ WF_vars(\E o \in ProbeOutcomes : AlignReturn(o))

SpecFair == Init /\ [][NextCall]_vars /\ Fairness

\* ------------------------------------------- the caller's references

\* __init__ stores the caller's dict itself (self.algorithms = algorithms,
\* no copy): the caller's reference and self.algorithms are one object, and
\* a statement the caller makes on its dict acts on self.algorithms.
CallerSetItem(name) ==
    /\ UNCHANGED <<cvars, ovars, tvars>>
    /\ pc \in {"idle", "done"}
    /\ algorithms' = SetItem(algorithms, name)
    /\ instance_of' = SetInstance(instance_of, name, 1)
    /\ op' = RegistryOp("caller: d[name] = algorithm", name, 1)
    /\ err' = ""
    /\ ResetLocals
    /\ UNCHANGED config

\* del d[name] on the caller's dict, for a key it holds.
CallerDelItem(name) ==
    /\ UNCHANGED <<cvars, ovars, tvars>>
    /\ pc \in {"idle", "done"}
    /\ HasKey(algorithms, name)
    /\ algorithms' = DelItem(algorithms, name)
    /\ instance_of' = DelInstance(instance_of, name)
    /\ op' = RegistryOp("caller: del d[name]", name, 0)
    /\ err' = ""
    /\ ResetLocals
    /\ UNCHANGED config

\* d.clear() on the caller's dict.
CallerClear ==
    /\ UNCHANGED <<cvars, ovars, tvars>>
    /\ pc \in {"idle", "done"}
    /\ algorithms' = <<>>
    /\ instance_of' = [n \in Names |-> 0]
    /\ op' = RegistryOp("caller: d.clear()", NoName, 0)
    /\ err' = ""
    /\ ResetLocals
    /\ UNCHANGED config

CallerOps ==
    {"caller: d[name] = algorithm", "caller: del d[name]",
     "caller: d.clear()"}

NextAliased ==
    \/ Register
    \/ Invoke
    \/ \E o \in ProbeOutcomes : AlignReturn(o)
    \/ Finish
    \/ \E n \in Names : register_algorithm(n, 1)
    \/ \E n \in Names : unregister_algorithm(n)
    \/ \E n \in Names : CallerSetItem(n)
    \/ \E n \in Names : CallerDelItem(n)
    \/ CallerClear

SpecAliased == Init /\ [][NextAliased]_vars

\* EngineConfig is a plain (not frozen) dataclass and __post_init__ runs at
\* construction only: engine.config.<field> = value, or the same through the
\* caller's reference to the config it passed, just stores the value.
SetConfigField(field, value) ==
    /\ UNCHANGED <<cvars, ovars, tvars>>
    /\ pc \in {"idle", "done"}
    /\ config' = [config EXCEPT ![field] = value]
    /\ op' = RegistryOp("setattr", field, 0)
    /\ err' = ""
    /\ ResetLocals
    /\ UNCHANGED <<algorithms, instance_of>>

NextMutableConfig ==
    \/ Register
    \/ Invoke
    \/ \E o \in ProbeOutcomes : AlignReturn(o)
    \/ Finish
    \/ \E f \in {"min_score", "min_inlier_ratio"}, v \in FloatInputs :
           SetConfigField(f, v)
    \/ \E v \in BOOLEAN : SetConfigField("enable_fallback", v)

SpecMutableConfig == Init /\ [][NextMutableConfig]_vars

\* ------------------------------------------- concurrent register() calls

\* Mutation: the locals are kept on the engine, one frame for all calls.
Frame_Shared(c) == 1

\* best_result, best_algorithm and attempts are locals: each call has its
\* own stack frame.
Frame(c) == c

ConcRegister(c) ==
    /\ cpc[c] \in {"idle", "done"}
    /\ cpc' = [cpc EXCEPT ![c] = "loop"]
    /\ cit' = [cit EXCEPT ![c] = 0]
    /\ frames' = [frames EXCEPT ![Frame(c)] = InitLocals]
    /\ couts' = [couts EXCEPT ![c] = <<>>]
    /\ cret' = [cret EXCEPT ![c] = NoRet]
    /\ UNCHANGED <<svars, ovars, tvars>>

ConcInvoke(c) ==
    /\ cpc[c] = "loop"
    /\ cit[c] < Len(algorithms)
    /\ cit' = [cit EXCEPT ![c] = @ + 1]
    /\ frames' = [frames EXCEPT ![Frame(c)].attempts =
                                   Append(@, algorithms[cit[c] + 1])]
    /\ cpc' = [cpc EXCEPT ![c] = "align"]
    /\ UNCHANGED <<svars, ovars, tvars, couts, cret>>

ConcAlignReturn(c, o) ==
    /\ cpc[c] = "align"
    /\ LET L == Process(config, frames[Frame(c)], algorithms[cit[c]], o)
       IN  IF L.ret.kind = "none"
           THEN /\ frames' = [frames EXCEPT ![Frame(c)] = L]
                /\ cpc' = [cpc EXCEPT ![c] = "loop"]
                /\ cret' = cret
           ELSE /\ frames' = [frames EXCEPT ![Frame(c)] =
                                               [L EXCEPT !.ret = NoRet]]
                /\ cpc' = [cpc EXCEPT ![c] = "done"]
                /\ cret' = [cret EXCEPT ![c] = L.ret]
    /\ couts' = [couts EXCEPT ![c] = Append(@, o)]
    /\ UNCHANGED <<svars, ovars, tvars, cit>>

ConcFinish(c) ==
    /\ cpc[c] = "loop"
    /\ cit[c] = Len(algorithms)
    /\ LET L == frames[Frame(c)]
       IN  cret' = [cret EXCEPT ![c] =
                       FallbackLogic(config, L.best_result, L.best_algorithm,
                                     L.attempts)]
    /\ cpc' = [cpc EXCEPT ![c] = "done"]
    /\ UNCHANGED <<svars, ovars, tvars, cit, frames, couts>>

\* Registries that leave at least one name unregistered.
ConcurrentRegistries == {r \in Registries : Len(r) < Cardinality(Names)}

InitConcurrent ==
    /\ Init
    /\ algorithms \in ConcurrentRegistries

NextConcurrent ==
    \/ \E c \in Calls : ConcRegister(c)
    \/ \E c \in Calls : ConcInvoke(c)
    \/ \E c \in Calls, o \in ProbeOutcomes : ConcAlignReturn(c, o)
    \/ \E c \in Calls : ConcFinish(c)

SpecConcurrent == InitConcurrent /\ [][NextConcurrent]_vars

\* ------------------------------------------------------------ asset twin

\* No ImageRegistrationEngine in the picture.
NoEngine ==
    /\ algorithms = <<>>
    /\ config = NoConfig
    /\ pc = "none"
    /\ instance_of = [n \in Names |-> 0]
    /\ InitRest

InitTwin == NoEngine /\ InitTelemetry

NextTelemetry ==
    \/ \E p \in Points : add_telemetry(p)
    \/ \E ts \in Timestamps, f \in FlowInputs, t \in TemperatureInputs :
           add_telemetry_reading(ts, f, t)
    \/ get_latest_telemetry
    \/ clear_telemetry

SpecTelemetry == InitTwin /\ [][NextTelemetry]_vars

\* Readings of a healthy and of an ailing pump.
ProbePoints ==
    {TelemetryPoint(ts, 10, 70) : ts \in Timestamps}
        \cup {TelemetryPoint(ts, 5, 90) : ts \in Timestamps}

NextRules ==
    \/ \E p \in ProbePoints : add_telemetry(p)
    \/ \E m \in {"evaluate", "needs_maintenance"} : EvaluateEnter(m)
    \/ EvaluateStep
    \/ EvaluateReturn
    \/ \E r \in RuleClasses : add_rule(r)
    \/ \E r \in RuleClasses : remove_rule(r)
    \/ Tick

SpecRules == InitTwin /\ [][NextRules]_vars

\* ------------------------------------------------------------ pass-through

\* metadata: Optional[dict] = None
MetadataInputs == {"None", "{keypoints: 250}"}

\* A validated RegistrationResult with all five of its fields.
FullResult(s, i, h, m, md) ==
    [kind |-> "result", score |-> s, inlier_ratio |-> i, exc |-> "",
     homography |-> h, matches_count |-> m, metadata |-> md]

\* Results of the worst and the best quality, with every payload.
FullResults ==
    {FullResult(s, s, h, m, md) : s \in {0, ScoreUnits},
        h \in HomographyInputs, m \in MatchInputs \ {-1},
        md \in MetadataInputs}

NextPassThrough ==
    \/ Register
    \/ Invoke
    \/ \E o \in FullResults \cup {NoResult, Raised("RuntimeError")} :
           AlignReturn(o)
    \/ Finish
    \/ \E n \in Names : register_algorithm(n, 1)
    \/ \E n \in Names : unregister_algorithm(n)

SpecPassThrough == Init /\ [][NextPassThrough]_vars

\* ------------------------------------------------------------ vocabulary

\* The outcome meets both thresholds of the configuration.
MeetsBoth(o) ==
    /\ o.kind = "result"
    /\ ~(o.score < config.min_score)
    /\ ~(o.inlier_ratio < config.min_inlier_ratio)

NonEmpty(o) == o.kind = "result"

Prefix(s, n) == SubSeq(s, 1, n)

IsPrefix(s, t) == Len(s) <= Len(t) /\ s = SubSeq(t, 1, Len(s))

NoDuplicates(s) == \A i, j \in 1..Len(s) : s[i] = s[j] => i = j

SeqRange(s) == {s[i] : i \in 1..Len(s)}

Returned == pc = "done" /\ ret.kind = "output"

Failed == pc = "done" /\ ret.kind = "RegistrationError"

\* The call has an outcome for every registered algorithm.
Exhausted == Len(outs) = Len(algorithms)

NoneMeetsBoth == \A i \in 1..Len(outs) : ~MeetsBoth(outs[i])

SomeNonEmpty == \E i \in 1..Len(outs) : NonEmpty(outs[i])

\* A raising algorithm replaced by one that returns nothing.
Erase(os) == [i \in 1..Len(os) |->
                 IF os[i].kind = "raise" THEN NoResult ELSE os[i]]

\* ------------------------------------------------------------ claims

\* C1: if the algorithm at position i is the first whose outcome meets both
\* thresholds, register() returns Accepted with that name, that outcome and
\* attempts = the first i names, and no algorithm after i is invoked.
C1_EarlyExit ==
    \A i \in 1..Len(outs) :
        (MeetsBoth(outs[i]) /\ \A j \in 1..(i - 1) : ~MeetsBoth(outs[j]))
        => /\ Returned
           /\ ret.status = "accepted"
           /\ ret.algorithm = algorithms[i]
           /\ ret.result = outs[i]
           /\ ret.attempts = Prefix(algorithms, i)
           /\ invoked = Prefix(algorithms, i)
           /\ Len(outs) = i

C1_Witness ==
    /\ Returned
    /\ ret.status = "accepted"
    /\ Len(algorithms) = 3
    /\ Len(outs) = 2
    /\ NonEmpty(outs[1])
    /\ outs[1].score > outs[2].score

\* C2: with fallback enabled, no outcome meeting both thresholds and some
\* non-empty outcome, register() returns FallbackLowConfidence with the
\* maximum-score outcome, the earliest one on a tie, its name, and all
\* registered names as attempts.
C2_FallbackSelection ==
    (pc = "done" /\ config.enable_fallback /\ NoneMeetsBoth /\ SomeNonEmpty)
    => /\ Returned
       /\ ret.status = "fallback_low_confidence"
       /\ ret.attempts = algorithms
       /\ \E i \in 1..Len(outs) :
              /\ NonEmpty(outs[i])
              /\ ret.result = outs[i]
              /\ ret.algorithm = algorithms[i]
              /\ \A j \in 1..Len(outs) :
                     NonEmpty(outs[j]) => outs[j].score <= outs[i].score
              /\ \A j \in 1..(i - 1) :
                     NonEmpty(outs[j]) => outs[j].score < outs[i].score

C2_Witness ==
    /\ Returned
    /\ ret.status = "fallback_low_confidence"
    /\ Len(outs) = 3
    /\ outs[1].kind = "none"
    /\ NonEmpty(outs[2]) /\ NonEmpty(outs[3])
    /\ outs[2].score = outs[3].score
    /\ outs[2].inlier_ratio < outs[3].inlier_ratio
    /\ ret.algorithm = algorithms[2]

C4_FallbackDisabled ==
    (pc = "done" /\ ~config.enable_fallback)
    => /\ NoneMeetsBoth => Failed
       /\ ret.status # "fallback_low_confidence"
       /\ ~NoneMeetsBoth => (Returned /\ ret.status = "accepted"
                             /\ MeetsBoth(ret.result))

C4_Witness ==
    /\ Failed
    /\ ~config.enable_fallback
    /\ SomeNonEmpty
    /\ NoneMeetsBoth
    /\ Len(outs) = 2

C6_AcceptancePredicate ==
    (pc \in {"loop", "done"} /\ Len(outs) > 0 /\ NonEmpty(outs[Len(outs)]))
    => LET o == outs[Len(outs)]
       IN  (Returned /\ ret.status = "accepted" /\ ret.result = o
            /\ ret.algorithm = algorithms[Len(outs)])
           <=> (o.score >= config.min_score
                /\ o.inlier_ratio >= config.min_inlier_ratio)

C6_Witness ==
    /\ Returned
    /\ ret.status = "accepted"
    /\ config.min_score > 0
    /\ config.min_inlier_ratio > 0
    /\ ret.result.score = config.min_score
    /\ ret.result.inlier_ratio = config.min_inlier_ratio

\* C7: register() raises RegistrationError only when (a) no algorithm gave a
\* non-empty outcome or (b) non-empty outcomes exist, none meets both
\* thresholds and fallback is disabled; otherwise it returns an output.
C7_ErrorOnlyWhen ==
    pc = "done"
    => LET a == ~SomeNonEmpty
           b == SomeNonEmpty /\ NoneMeetsBoth /\ ~config.enable_fallback
       IN  /\ ret.kind = "RegistrationError" => (a \/ b)
           /\ ~(a \/ b) => ret.kind = "output"

C7_Witness ==
    /\ Failed
    /\ ~config.enable_fallback
    /\ Len(outs) = 3
    /\ outs[1].kind = "raise"
    /\ NonEmpty(outs[2])
    /\ outs[3].kind = "none"

\* C8: register() ends only with a RegistrationOutput or a RegistrationError,
\* whatever a single algorithm does (raise, return nothing, or return a value
\* that violates the result contract).
C8_OnlyOutputOrRegistrationError ==
    pc = "done" => ret.kind \in {"output", "RegistrationError"}

\* C9: every RegistrationError of register() names every attempted
\* algorithm, and with fallback disabled also gives the best score and the
\* configured thresholds.
C9_ErrorNamesAttempts ==
    Failed
    => /\ SeqRange(attempts) \subseteq SeqRange(ret.msg.names)
       /\ (SomeNonEmpty /\ ~config.enable_fallback)
          => /\ ret.msg.best_score = best_result.score
             /\ ret.msg.min_score = config.min_score
             /\ ret.msg.min_inlier_ratio = config.min_inlier_ratio

\* C10: at every point of a register() call and in its output, attempts is
\* the sequence of names invoked so far, has no duplicates, is a prefix of
\* the registry's insertion order and includes the algorithms that raised or
\* returned nothing.
C10_AttemptsInvocationOrder ==
    /\ attempts = invoked
    /\ NoDuplicates(attempts)
    /\ IsPrefix(attempts, algorithms)
    /\ Len(outs) <= Len(attempts)
    /\ Len(attempts) <= Len(outs) + 1
    /\ \A i \in 1..Len(outs) :
           ~NonEmpty(outs[i]) => attempts[i] = algorithms[i]
    /\ Returned => ret.attempts = invoked

C10_Witness ==
    /\ Returned
    /\ Len(ret.attempts) = 3
    /\ outs[1].kind = "raise"
    /\ outs[2].kind = "none"

\* The dict is coherent: unique keys, and a value for exactly the keys.
RegistryCoherent ==
    /\ NoDuplicates(algorithms)
    /\ Len(algorithms) >= 1
    /\ \A n \in Names : HasKey(algorithms, n) <=> instance_of[n] # 0

\* C11: with register_algorithm / unregister_algorithm running during an
\* in-flight register() call, the call still ends with a RegistrationOutput
\* or a RegistrationError and the registry is left coherent.
C11_InFlightMutationSafe ==
    (pc = "done" /\ Len(outs) > 0)
    => /\ ret.kind \in {"output", "RegistrationError"}
       /\ RegistryCoherent

\* C12: concurrent register() calls on one engine, with no registry
\* mutation, do not interfere: each call ends with the output or error,
\* attempts included, that it gives when run alone on its outcomes.
C12_ConcurrentCallsIndependent ==
    \A c \in Calls :
        cpc[c] = "done"
        => /\ cret[c] = Run(config, algorithms, couts[c])
           /\ cret[c].kind = "output"
              => cret[c].attempts = Prefix(algorithms, Len(couts[c]))

C12_Witness ==
    /\ cpc[1] = "done" /\ cpc[2] = "align"
    /\ Len(couts[1]) = 2 /\ Len(couts[2]) = 1
    /\ cret[1].kind = "output"
    /\ cret[1].status = "fallback_low_confidence"
    /\ couts[2][1] # couts[1][1]

\* C13: register() carries no session state: its steps leave the registry
\* (names, instances, order) and the config unchanged, and its result is
\* the function Run of the registry, the config and the outcomes of that
\* call alone.
C13_NoSessionState ==
    /\ [][pc' \in {"loop", "align", "done"}
          => /\ algorithms' = algorithms
             /\ instance_of' = instance_of
             /\ config' = config]_vars
    /\ [](pc = "done" => ret = Run(config, algorithms, outs))

C13_Witness ==
    /\ Failed
    /\ Len(algorithms) = 2
    /\ NonEmpty(outs[1])
    /\ outs[2].kind = "raise"

\* C14: constructing the engine with zero algorithms fails with
\* ConfigurationError and yields no engine; constructing it without a config
\* uses min_score = 0.85, min_inlier_ratio = 0.6, enable_fallback = true.
C14_Construction ==
    op.name = "__init__"
    => /\ op.inst = 0 => (err = "ConfigurationError" /\ pc = "new"
                          /\ algorithms = <<>>)
       /\ (op.inst > 0 /\ op.key = "config=None")
          => /\ pc = "idle"
             /\ err = ""
             /\ config.min_score = 85
             /\ config.min_inlier_ratio = 60
             /\ config.enable_fallback = TRUE

C14_Witness ==
    /\ op.name = "__init__"
    /\ op.inst = 0
    /\ op.key = "config=None"
    /\ err = "ConfigurationError"

InRange(x) == 0 <= x /\ x <= ScoreUnits

\* C17 as claimed: an EngineConfig with min_score or min_inlier_ratio outside
\* [0,1] fails construction with a ConfigurationError; every value inside
\* [0,1], bounds included, is accepted.
C17_ConfigurationErrorOutOfRange ==
    cfg_obj.called
    => IF InRange(cfg_obj.args.min_score)
          /\ InRange(cfg_obj.args.min_inlier_ratio)
       THEN cfg_obj.raised = "" /\ cfg_obj.value = cfg_obj.args
       ELSE cfg_obj.raised = "ConfigurationError"

\* C17 as amended: the construction fails with a ValueError.
C17_ValueErrorOutOfRange ==
    cfg_obj.called
    => IF InRange(cfg_obj.args.min_score)
          /\ InRange(cfg_obj.args.min_inlier_ratio)
       THEN cfg_obj.raised = "" /\ cfg_obj.value = cfg_obj.args
       ELSE cfg_obj.raised = "ValueError" /\ cfg_obj.value = NoConfig

C17_Witness ==
    /\ cfg_obj.called
    /\ cfg_obj.args.min_score = ScoreUnits
    /\ cfg_obj.args.min_inlier_ratio = ScoreUnits + 1
    /\ cfg_obj.raised = "ValueError"

\* C18: constructing a RegistrationResult fails whenever score or
\* inlier_ratio is outside [0,1] or matches_count is negative, and otherwise
\* succeeds with every field stored as given, never clamped.
C18_ResultValidation ==
    res_obj.called
    => IF InRange(res_obj.args.score) /\ InRange(res_obj.args.inlier_ratio)
          /\ res_obj.args.matches_count >= 0
       THEN res_obj.raised = "" /\ res_obj.value = res_obj.args
       ELSE res_obj.raised # "" /\ res_obj.value = NoFields

C18_Witness ==
    /\ res_obj.called
    /\ res_obj.args.score = 0
    /\ res_obj.args.inlier_ratio = ScoreUnits
    /\ res_obj.args.matches_count = -1
    /\ res_obj.raised = "ValueError"

\* The step is a call of the registry operation opname by the caller.
IsOp(opname) == op'.name = opname /\ pc' = "idle"

IndexOf(s, x) == CHOOSE i \in 1..Len(s) : s[i] = x

\* The names in K come in the same relative order in s and in t.
SameOrder(s, t, K) ==
    \A x, y \in K : IndexOf(s, x) < IndexOf(s, y)
                     <=> IndexOf(t, x) < IndexOf(t, y)

\* C15: unregister_algorithm(name) on a registry holding exactly the one
\* entry name fails with ConfigurationError and leaves the registry
\* unchanged.
C15_CannotRemoveLast ==
    [][(IsOp("unregister_algorithm") /\ algorithms = <<op'.key>>)
       => /\ err' = "ConfigurationError"
          /\ algorithms' = algorithms
          /\ instance_of' = instance_of]_vars

C15_Witness ==
    /\ op.name = "unregister_algorithm"
    /\ algorithms = <<op.key>>
    /\ err = "ConfigurationError"
    /\ instance_of[op.key] = 2

\* C16: unregister_algorithm(name) with a name that is not in the registry
\* is a no-op for every registry, a single-entry one included: no error and
\* the registry is unchanged.
C16_UnregisterMissingIsNoOp ==
    [][(IsOp("unregister_algorithm") /\ ~HasKey(algorithms, op'.key))
       => /\ err' = ""
          /\ algorithms' = algorithms
          /\ instance_of' = instance_of]_vars

\* C19: register_algorithm(name, a) inserts or replaces: afterwards name maps
\* to a, the other entries and their relative order are unchanged, a new
\* name is last and grows the registry by one, and a later register() call
\* invokes the instance the registry holds, never a replaced one.
C19_RegisterInsertsOrReplaces ==
    /\ [][IsOp("register_algorithm")
          => LET n == op'.key
                 others == SeqRange(algorithms) \ {n}
             IN  /\ err' = ""
                 /\ instance_of'[n] = op'.inst
                 /\ \A m \in Names \ {n} : instance_of'[m] = instance_of[m]
                 /\ NoDuplicates(algorithms')
                 /\ SeqRange(algorithms') = SeqRange(algorithms) \cup {n}
                 /\ SameOrder(algorithms, algorithms', others)
                 /\ ~HasKey(algorithms, n)
                    => /\ Len(algorithms') = Len(algorithms) + 1
                       /\ algorithms'[Len(algorithms')] = n]_vars
    /\ [](\A i \in 1..Len(invoked) :
              /\ Len(invoked_inst) = Len(invoked)
              /\ invoked_inst[i] = instance_of[invoked[i]]
              /\ invoked_inst[i] # 0)

C19_Witness ==
    /\ op.name = "register_algorithm"
    /\ Len(algorithms) = 3
    /\ algorithms[1] = op.key
    /\ op.inst = 2
    /\ instance_of = [n \in Names |-> IF n = op.key THEN 2 ELSE 1]

\* C20: after unregister_algorithm(name) succeeds on a registry of at least
\* two entries that contains name, the registry holds exactly the other
\* entries in their previous relative order, and no later register() call
\* invokes name or lists it in attempts until it is registered again.
C20_UnregisterRemoves ==
    /\ [][(IsOp("unregister_algorithm") /\ Len(algorithms) >= 2
           /\ HasKey(algorithms, op'.key))
          => LET others == SeqRange(algorithms) \ {op'.key}
             IN  /\ err' = ""
                 /\ SeqRange(algorithms') = others
                 /\ Len(algorithms') = Len(algorithms) - 1
                 /\ SameOrder(algorithms, algorithms', others)
                 /\ \A m \in others : instance_of'[m] = instance_of[m]]_vars
    /\ [][\A n \in Names :
              (~HasKey(algorithms, n) /\ HasKey(algorithms', n))
              => (IsOp("register_algorithm") /\ op'.key = n)]_vars
    /\ [](/\ SeqRange(invoked) \subseteq SeqRange(algorithms)
          /\ SeqRange(attempts) \subseteq SeqRange(algorithms)
          /\ SeqRange(ret.attempts) \subseteq SeqRange(algorithms))

C20_Witness ==
    /\ op.name = "unregister_algorithm"
    /\ err = ""
    /\ Len(algorithms) = 2
    /\ ~HasKey(algorithms, op.key)
    /\ op.key = "B"
    /\ algorithms = <<"C", "A">>

\* C21: the result of a RegistrationOutput is the very value the align() of
\* the named algorithm returned in this call: score, inlier_ratio,
\* homography, matches_count and metadata are all as returned.
C21_PassThrough ==
    Returned =>
        \E i \in 1..Len(outs) :
            /\ invoked[i] = ret.algorithm
            /\ DOMAIN ret.result = DOMAIN outs[i]
            /\ outs[i] = ret.result

\* A fallback output whose result carries metadata and was not the last
\* one returned.
C21_Witness ==
    /\ Returned
    /\ ret.status = "fallback_low_confidence"
    /\ ret.result.metadata # "None"
    /\ ret.result.matches_count = 1
    /\ Len(outs) > 1
    /\ ret.algorithm # invoked[Len(invoked)]

\* The list is in non-decreasing timestamp order.
SortedByTimestamp(s) ==
    \A i, j \in 1..Len(s) : i < j => s[i].timestamp <= s[j].timestamp

\* C22: after any sequence of add_telemetry, add_telemetry_reading and
\* clear_telemetry calls the telemetry list is in non-decreasing timestamp
\* order; get_latest_telemetry returns a stored point with the greatest
\* timestamp, and None exactly when no point is stored.
C22_TelemetrySorted ==
    /\ SortedByTimestamp(telemetry)
    /\ tret.op = "get_latest_telemetry" =>
           /\ tret.point = NoPoint <=> telemetry = <<>>
           /\ tret.point # NoPoint =>
                  /\ \E i \in 1..Len(telemetry) : telemetry[i] = tret.point
                  /\ \A i \in 1..Len(telemetry) :
                         telemetry[i].timestamp <= tret.point.timestamp

\* Three points added latest first, and the latest one is returned.
C22_Witness ==
    /\ Len(telemetry) = 3
    /\ telemetry[1].timestamp < telemetry[2].timestamp
    /\ telemetry[2].timestamp < telemetry[3].timestamp
    /\ tret.op = "get_latest_telemetry"
    /\ tret.point = telemetry[3]
    /\ tret.point.flow < telemetry[1].flow

\* The evaluate() call an AssetTwin method made has returned.
Evaluated(method) == tpc = "idle" /\ tret.op = method

\* C23: evaluate returns one RuleResult per registered rule, in rule order,
\* and needs_maintenance is true exactly when one of the results of its
\* evaluation has needs_maintenance set (false with no rules).
C23_OneResultPerRule ==
    /\ Evaluated("evaluate") \/ Evaluated("needs_maintenance") =>
           /\ Len(tret.list) = Len(rules)
           /\ \A i \in 1..Len(rules) :
                  tret.list[i] = EvaluateRule(rules[i], twin_config,
                                              telemetry, tret.seen[i])
    /\ Evaluated("needs_maintenance") =>
           /\ tret.flag <=>
                  \E i \in 1..Len(tret.list) : tret.list[i].needs_maintenance
           /\ rules = <<>> => ~tret.flag

\* Two different rules, of which only the second asks for maintenance.
C23_Witness ==
    /\ Evaluated("needs_maintenance")
    /\ Len(rules) = 2
    /\ rules[1] # rules[2]
    /\ ~tret.list[1].needs_maintenance
    /\ tret.list[2].needs_maintenance
    /\ tret.flag

\* The number of stored points inside the evaluation window at clock
\* reading t.
InsideWindow(t) ==
    Cardinality({i \in 1..Len(telemetry) :
        telemetry[i].timestamp
            >= t - twin_config.thresholds.evaluation_window_days})

\* C24: a FlowDegradationRule or TemperatureExcursionRule that finds fewer
\* than min_data_points points inside its evaluation window reports
\* needs_maintenance = false with confidence 0 whatever the readings are,
\* and a twin with the default rules then does not need maintenance.
C24_InsufficientData ==
    Evaluated("evaluate") \/ Evaluated("needs_maintenance") =>
        /\ \A i \in 1..Len(tret.list) :
               InsideWindow(tret.seen[i])
                       < twin_config.thresholds.min_data_points =>
                   /\ ~tret.list[i].needs_maintenance
                   /\ tret.list[i].confidence = 0
        /\ /\ tret.op = "needs_maintenance"
           /\ rules = DefaultRules
           /\ InsideWindow(tret.seen[1])
                  < twin_config.thresholds.min_data_points
           => ~tret.flag

\* Readings of an ailing pump are stored, too few of them inside the window
\* although the whole history would be enough, and the twin with the
\* default rules does not need maintenance.
C24_Witness ==
    /\ Evaluated("needs_maintenance")
    /\ rules = DefaultRules
    /\ Len(telemetry) >= twin_config.thresholds.min_data_points
    /\ \A i \in 1..Len(telemetry) :
           telemetry[i].flow = 5 /\ telemetry[i].temperature = 90
    /\ InsideWindow(tret.seen[1]) > 0
    /\ InsideWindow(tret.seen[1]) < twin_config.thresholds.min_data_points
    /\ ~tret.flag

\* The constructor has returned an engine.
Constructed == pc \in {"idle", "loop", "align", "done"}

\* C25: from a successful construction on, through register_algorithm,
\* unregister_algorithm and register calls that succeed or fail, the registry
\* holds at least one algorithm.
C25_RegistryNeverEmpty ==
    Constructed => /\ Len(algorithms) >= 1
                   /\ \E n \in Names : instance_of[n] # 0

\* A removal that succeeds and leaves a single algorithm.
C25_Witness ==
    /\ Constructed
    /\ op.name = "unregister_algorithm"
    /\ err = ""
    /\ Len(algorithms) = 1
    /\ ~HasKey(algorithms, op.key)

\* C26: in every RegistrationOutput the status is "accepted" exactly when
\* the result meets both thresholds, a "fallback_low_confidence" output
\* never carries a result that meets both, and the algorithm of an accepted
\* output is the last name in attempts.
C26_StatusMatchesQuality ==
    Returned =>
        /\ ret.status \in {"accepted", "fallback_low_confidence"}
        /\ ret.status = "accepted" <=> MeetsBoth(ret.result)
        /\ ret.status = "fallback_low_confidence" => ~MeetsBoth(ret.result)
        /\ ret.status = "accepted" =>
               /\ ret.attempts # <<>>
               /\ ret.algorithm = ret.attempts[Len(ret.attempts)]

\* A fallback output whose result meets one threshold and misses the other,
\* from an algorithm that is not the last one tried.
C26_Witness ==
    /\ Returned
    /\ ret.status = "fallback_low_confidence"
    /\ ret.result.score >= config.min_score
    /\ config.min_score > 0
    /\ ret.result.inlier_ratio < config.min_inlier_ratio
    /\ ret.algorithm # ret.attempts[Len(ret.attempts)]

\* C27: register_algorithm with a name that is already registered leaves the
\* name at its position: the order of all names, which is the trial order
\* and the tie-break priority of register(), is the same before and after.
C27_OverwriteKeepsPosition ==
    /\ [][(IsOp("register_algorithm") /\ HasKey(algorithms, op'.key))
          => /\ algorithms' = algorithms
             /\ IndexOf(algorithms', op'.key) = IndexOf(algorithms, op'.key)]_vars
    /\ [](pc \in {"loop", "align", "done"} => IsPrefix(invoked, algorithms))

\* The middle one of three entries has been overwritten with another
\* instance.
C27_Witness ==
    /\ op.name = "register_algorithm"
    /\ err = ""
    /\ Len(algorithms) = 3
    /\ algorithms[2] = op.key
    /\ op.inst = 2
    /\ instance_of[op.key] = 2

\* C28: the registry changes only through register_algorithm and
\* unregister_algorithm: what the caller later does to the mapping it passed
\* to the constructor (adding, removing, clearing) changes neither the
\* registry nor the algorithms register() tries.
C28_RegistryOwnedByEngine ==
    [][op'.name \in CallerOps
       => /\ algorithms' = algorithms
          /\ instance_of' = instance_of]_vars

\* C29: no operation changes min_score, min_inlier_ratio or enable_fallback
\* of a constructed EngineConfig, and the engine's thresholds lie in [0,1]
\* in every reachable state.
C29_ConfigImmutable ==
    /\ [][config' = config]_vars
    /\ [](InRange(config.min_score) /\ InRange(config.min_inlier_ratio))

====
